---------------------------- MODULE Spec2Model ----------------------------
(***************************************************************************)
(* State-machine model of the four candle-driven bots of the repository:   *)
(*   "paper"  : paper_trading_bot.py         (run, handle_signal, ...)     *)
(*   "edited" : paper_trading_bot_Edited.py  (consume_ws, handle_signal)   *)
(*   "final"  : bot_final.py                 (run_bot)                     *)
(*   "bot"    : bot.py                       (run_bot)                     *)
(* One behaviour follows one program (variable prog, fixed by Init).  One  *)
(* action models one iteration of the program's "async for" loop: the     *)
(* whole handling of one received message.                                 *)
(*                                                                         *)
(* Python floats are modelled as exact rationals <<num, den>> (den > 0,    *)
(* lowest terms); prices are the integers of the feed alphabets.           *)
(***************************************************************************)
EXTENDS Integers, Sequences, FiniteSets, TLC

(***************************************************************************)
(* Rational arithmetic (the float expressions of the source).              *)
(***************************************************************************)
Min(a, b) == IF a < b THEN a ELSE b

Abs(x) == IF x < 0 THEN -x ELSE x

RECURSIVE GCD(_, _)
GCD(a, b) == IF b = 0 THEN a ELSE GCD(b, a % b)

\* n / d in lowest terms with a positive denominator (d # 0)
Norm(n, d) ==
    LET g == GCD(Abs(n), Abs(d))
        s == IF d < 0 THEN -1 ELSE 1
    IN  <<(s * n) \div g, (s * d) \div g>>

Zero == <<0, 1>>

RAdd(p, q) ==
    LET l == (p[2] * q[2]) \div GCD(p[2], q[2])
    IN  Norm(p[1] * (l \div p[2]) + q[1] * (l \div q[2]), l)

RMulInt(p, k) == Norm(p[1] * k, p[2])

RDivInt(p, k) == Norm(p[1], p[2] * k)

RAbs(p) == <<Abs(p[1]), p[2]>>

RLess(p, q) == p[1] * q[2] < q[1] * p[2]

\* sum(deque) of the source: left to right, starting from 0
RECURSIVE RSum(_)
RSum(s) == IF s = <<>> THEN Zero ELSE RAdd(RSum(SubSeq(s, 1, Len(s) - 1)), s[Len(s)])

(***************************************************************************)
(* Configuration.  The thresholds are percentages: 1/100 is 0.01 %.        *)
(***************************************************************************)
PAPER_WINDOW == 5
PAPER_LONG_THRESH == <<1, 100>>
PAPER_SHORT_THRESH == <<-1, 100>>
EXIT_DEADBAND == <<1, 500>>
SIGNAL_BUF_LEN == 2

EDITED_WINDOW == 2
EDITED_LONG_THRESH == <<1, 2>>
EDITED_SHORT_THRESH == <<-1, 2>>

\* bot.py / bot_final.py read these from the environment; the defaults of
\* LONG_THRESHOLD and SHORT_THRESHOLD, and a ROLLING_WINDOW of LiveWindow
LIVE_LONG_THRESH == <<1, 10>>
LIVE_SHORT_THRESH == <<-1, 10>>
LiveWindow == 2

RECONNECT_DELAY == 5
POSITION_SIZE == 1
START_BALANCE == 100000
MAX_DRAWDOWN == -5000
\* The source sets MAX_TRADES = 50.  The limit is only ever compared with
\* trades (trades >= MAX_TRADES), so the model scales it to a value the
\* bounded feed can reach.
MAX_TRADES == 2

\* the worked scenario of the specification: W = 2, thresholds +-0.1 %
SCENARIO_LONG_THRESH == <<1, 10>>
SCENARIO_SHORT_THRESH == <<-1, 10>>
ScenarioCloses == <<100, 101, 99, 98, 105>>

(***************************************************************************)
(* Bounds of the model and the feed alphabets.                             *)
(***************************************************************************)
MaxFwdPaper == 6
MaxFwd == 5
MaxFwdLive == 4
\* record_equity dumps every 100 snapshots; scaled so that dumps happen
DumpEvery == 2
MaxUnread == 1
MaxAttempts == 8         \* connection attempts in one behaviour
MaxFwdConn == 4          \* candles passed on while the transport may fail

Progs == {"paper", "edited", "final", "bot"}

\* closes a feed may send, chosen so that every signal, both threshold
\* equalities, a zero previous close and both kill-switches occur
PaperCloses == {5000, 10000, 10001, 10003, 10006}
EditedCloses == {0, 198, 200, 201}
LiveCloses == {0, 500, 1000, 1001}
PaperTimestamps == {1, 2}
EditedTimestamps == {1, 2, 3}
LiveTimestamps == {1, 2}

\* the feed of the behaviours in which the transport may fail
ConnEditedCloses == {198, 201}
ConnLiveCloses == {50, 100, 101}
ConnEditedTimestamps == {1, 2}
ConnLiveTimestamps == {1}

(***************************************************************************)
(* State.                                                                  *)
(***************************************************************************)
VARIABLES
    prog,            \* which program this behaviour runs
    scripted,        \* TRUE: the feed sends the worked scenario, in order
    WINDOW, LONG_THRESH, SHORT_THRESH, PRODUCT_ID,    \* configuration
    pc,              \* "run": inside the receive loop; "halted": left it
                     \* by a kill-switch break; "crashed": an exception
                     \* escaped run()
    closes, returns, \* the two bounded deques (returns is pct_deque in the
                     \* live bots)
    signal_buf,      \* paper: the last SIGNAL_BUF_LEN raw signals
    last_signal,     \* live bots: state["last_signal"]
    position, entry_price, balance, trades,
    last_candle_ts,  \* <<>> is None
    equity_curve,    \* edited: the snapshots appended by record_equity
    equity_file,     \* edited: the curve last written to EQUITY_FILE
    ret_pct, signal, \* the loop's locals after the last processed candle
    orders,          \* live bots: the sides of the orders dispatched
    tradelog,        \* the ENTER / EXIT lines written by log()
    fwd,             \* history: the candles passed on to the pipeline
    unread,          \* messages the feed sent after the loop was left
    conn,            \* "connecting": at websockets.connect; "open": the
                     \* connection is made, nothing sent yet; "connected":
                     \* in "async for"; "sleeping": in asyncio.sleep of the
                     \* except handler
    backoff,         \* bot_final: run_bot's local; 0 in the other programs
    subs,            \* subscribe requests sent on the current connection
    inflight,        \* live bots: place_market_order tasks not yet done
    fails,           \* history: failures since the last connection made
    attempts,        \* history: connection attempts so far
    fwd_conn         \* history: the attempt whose connection passed on the
                     \* last candle of fwd

cfgvars == <<prog, scripted, WINDOW, LONG_THRESH, SHORT_THRESH, PRODUCT_ID>>
winvars == <<closes, returns, signal_buf, last_signal, ret_pct, signal>>
accvars == <<position, entry_price, balance, trades, tradelog>>
connvars == <<conn, backoff, subs, fails, attempts>>
eqvars == <<equity_curve, equity_file>>
vars == <<cfgvars, pc, winvars, accvars, last_candle_ts, eqvars,
          orders, fwd, unread, connvars, inflight, fwd_conn>>

(***************************************************************************)
(* Messages.  A "candle" is a message in the shape the program reads its   *)
(* timestamp and close from; "other" is a well-formed message that is not  *)
(* a candle (no payload / another type); "badclose" is a candle message    *)
(* whose close is missing or not a number; "malformed" is a frame that is   *)
(* not JSON; "nots" is a candle message with a close and no timestamp (its  *)
(* ts field, 0, stands for None).                                           *)
(***************************************************************************)
Candle(t, c) == [kind |-> "candle", ts |-> t, close |-> c]
Other == [kind |-> "other", ts |-> 0, close |-> 0]
BadClose == [kind |-> "badclose", ts |-> 1, close |-> 0]
Malformed == [kind |-> "malformed", ts |-> 0, close |-> 0]
NoTs(c) == [kind |-> "nots", ts |-> 0, close |-> c]

CloseAlphabet ==
    CASE prog = "paper" -> PaperCloses
      [] prog = "edited" -> EditedCloses
      [] OTHER -> LiveCloses

TsAlphabet ==
    CASE prog = "paper" -> PaperTimestamps
      [] prog = "edited" -> EditedTimestamps
      [] OTHER -> LiveTimestamps

MaxLen ==
    CASE scripted -> Len(ScenarioCloses)
      [] prog = "paper" -> MaxFwdPaper
      [] prog = "edited" -> MaxFwd
      [] OTHER -> MaxFwdLive

\* what the feed may send next
Inbox ==
    IF scripted
    THEN IF Len(fwd) < Len(ScenarioCloses)
         THEN {Candle(Len(fwd) + 1, ScenarioCloses[Len(fwd) + 1])}
         ELSE {}
    ELSE {Candle(t, c) : t \in TsAlphabet, c \in CloseAlphabet}
            \cup {Other, BadClose}

(***************************************************************************)
(* Rolling window and signal.                                              *)
(***************************************************************************)
\* mutant: the deque never evicts
DequeAppend_noevict(q, x, maxlen) == Append(q, x)

\* deque(maxlen).append(x)
DequeAppend(q, x, maxlen) ==
    LET s == Append(q, x)
    IN  IF Len(s) > maxlen THEN Tail(s) ELSE s

\* mutant: the change is taken relative to the new close
compute_return_of_new(new, prev) ==
    IF new # 0 THEN Norm(new - prev, new) ELSE Zero

\* (new - prev) / prev if prev else 0.0
compute_return(new, prev) ==
    IF prev # 0 THEN Norm(new - prev, prev) ELSE Zero

rolling_mean(rets) ==
    IF rets # <<>> THEN RDivInt(RSum(rets), Len(rets)) ELSE Zero

\* mutant: the thresholds are inclusive
signal_from_return_inclusive(r, long, short) ==
    IF ~RLess(r, long) THEN 1
    ELSE IF ~RLess(short, r) THEN -1
    ELSE 0

signal_from_return(r, long, short) ==
    IF RLess(long, r) THEN 1
    ELSE IF RLess(r, short) THEN -1
    ELSE 0

compute_signal(ret_percent, long_th, short_th) ==
    IF RLess(long_th, ret_percent) THEN 1
    ELSE IF RLess(ret_percent, short_th) THEN -1
    ELSE 0

make_rolling_state(window) ==
    [closes |-> <<>>, pct_deque |-> <<>>, last_signal |-> 0]

\* returns <<state, rolling_mean * 100>>; the deques were made with
\* maxlen window + 1 and window
update_returns_state(state, new_close, window) ==
    LET cl == state.closes
        pd == IF cl # <<>>
              THEN DequeAppend(state.pct_deque,
                               compute_return(new_close, cl[Len(cl)]), window)
              ELSE state.pct_deque
        st == [state EXCEPT !.closes = DequeAppend(cl, new_close, window + 1),
                            !.pct_deque = pd]
    IN  <<st, RMulInt(rolling_mean(pd), 100)>>

(***************************************************************************)
(* Paper execution.  An account a is the record of position, entry_price   *)
(* (<<>> is None), balance, trades and the trade log.                      *)
(***************************************************************************)
Acct ==
    [position |-> position, entry_price |-> entry_price, balance |-> balance,
     trades |-> trades, log |-> tradelog]

LogLine(ev, side, price, pnl) ==
    [ev |-> ev, side |-> side, price |-> price, pnl |-> pnl]

\* mutant: an entry pays the price out of the balance
enter_long_charges(a, price) ==
    [a EXCEPT !.position = "LONG",
              !.entry_price = <<price>>,
              !.trades = @ + 1,
              !.balance = @ - price * POSITION_SIZE,
              !.log = Append(@, LogLine("ENTER", "LONG", price, 0))]

enter_long(a, price) ==
    [a EXCEPT !.position = "LONG",
              !.entry_price = <<price>>,
              !.trades = @ + 1,
              !.log = Append(@, LogLine("ENTER", "LONG", price, 0))]

\* mutant: an entry on the short side leaves the entry price as it was
enter_short_noprice(a, price) ==
    [a EXCEPT !.position = "SHORT",
              !.trades = @ + 1,
              !.log = Append(@, LogLine("ENTER", "SHORT", price, 0))]

enter_short(a, price) ==
    [a EXCEPT !.position = "SHORT",
              !.entry_price = <<price>>,
              !.trades = @ + 1,
              !.log = Append(@, LogLine("ENTER", "SHORT", price, 0))]

\* mutant: an exit counts as a trade
exit_position_counts(a, price) ==
    IF a.position \in {"LONG", "SHORT"}
    THEN LET pnl == IF a.position = "LONG"
                    THEN (price - a.entry_price[1]) * POSITION_SIZE
                    ELSE (a.entry_price[1] - price) * POSITION_SIZE
         IN  [a EXCEPT !.balance = @ + pnl,
                       !.trades = @ + 1,
                       !.log = Append(@, LogLine("EXIT", a.position, price, pnl)),
                       !.position = "FLAT",
                       !.entry_price = <<>>]
    ELSE a

\* mutant: the PnL of a SHORT is computed like that of a LONG
exit_position_longpnl(a, price) ==
    IF a.position \in {"LONG", "SHORT"}
    THEN LET pnl == (price - a.entry_price[1]) * POSITION_SIZE
         IN  [a EXCEPT !.balance = @ + pnl,
                       !.log = Append(@, LogLine("EXIT", a.position, price, pnl)),
                       !.position = "FLAT",
                       !.entry_price = <<>>]
    ELSE a

exit_position(a, price) ==
    IF a.position \in {"LONG", "SHORT"}
    THEN LET pnl == IF a.position = "LONG"
                    THEN (price - a.entry_price[1]) * POSITION_SIZE
                    ELSE (a.entry_price[1] - price) * POSITION_SIZE
         IN  [a EXCEPT !.balance = @ + pnl,
                       !.log = Append(@, LogLine("EXIT", a.position, price, pnl)),
                       !.position = "FLAT",
                       !.entry_price = <<>>]
    ELSE a

\* mutant: the gate waits for a full buffer but does not compare its entries
paper_handle_signal_anyfull(a, buf, sig, price, ret) ==
    IF Len(buf) < SIGNAL_BUF_LEN
    THEN a
    ELSE CASE a.position = "FLAT" ->
                IF sig = 1 THEN enter_long(a, price)
                ELSE IF sig = -1 THEN enter_short(a, price)
                ELSE a
           [] a.position = "LONG" ->
                IF sig = -1 THEN enter_short(exit_position(a, price), price)
                ELSE IF sig = 0 /\ RLess(RAbs(ret), EXIT_DEADBAND)
                     THEN exit_position(a, price)
                ELSE a
           [] a.position = "SHORT" ->
                IF sig = 1 THEN enter_long(exit_position(a, price), price)
                ELSE IF sig = 0 /\ RLess(RAbs(ret), EXIT_DEADBAND)
                     THEN exit_position(a, price)
                ELSE a

\* mutant: the deadband test is inverted, a NEUTRAL signal exits when the
\* change is not below the deadband
paper_handle_signal_outside(a, buf, sig, price, ret) ==
    IF Len(buf) < SIGNAL_BUF_LEN \/ \E i \in 1..Len(buf) : buf[i] # sig
    THEN a
    ELSE CASE a.position = "FLAT" ->
                IF sig = 1 THEN enter_long(a, price)
                ELSE IF sig = -1 THEN enter_short(a, price)
                ELSE a
           [] a.position = "LONG" ->
                IF sig = -1 THEN enter_short(exit_position(a, price), price)
                ELSE IF sig = 0 /\ ~RLess(RAbs(ret), EXIT_DEADBAND)
                     THEN exit_position(a, price)
                ELSE a
           [] a.position = "SHORT" ->
                IF sig = 1 THEN enter_long(exit_position(a, price), price)
                ELSE IF sig = 0 /\ ~RLess(RAbs(ret), EXIT_DEADBAND)
                     THEN exit_position(a, price)
                ELSE a

\* paper_trading_bot.handle_signal: acts only on a signal that fills the
\* signal buffer
paper_handle_signal(a, buf, sig, price, ret) ==
    IF Len(buf) < SIGNAL_BUF_LEN \/ \E i \in 1..Len(buf) : buf[i] # sig
    THEN a
    ELSE CASE a.position = "FLAT" ->
                IF sig = 1 THEN enter_long(a, price)
                ELSE IF sig = -1 THEN enter_short(a, price)
                ELSE a
           [] a.position = "LONG" ->
                IF sig = -1 THEN enter_short(exit_position(a, price), price)
                ELSE IF sig = 0 /\ RLess(RAbs(ret), EXIT_DEADBAND)
                     THEN exit_position(a, price)
                ELSE a
           [] a.position = "SHORT" ->
                IF sig = 1 THEN enter_long(exit_position(a, price), price)
                ELSE IF sig = 0 /\ RLess(RAbs(ret), EXIT_DEADBAND)
                     THEN exit_position(a, price)
                ELSE a

\* mutant: a reversal only exits and leaves the position FLAT
edited_handle_signal_exitonly(a, sig, price) ==
    CASE a.position = "FLAT" ->
            IF sig = 1 THEN enter_long(a, price)
            ELSE IF sig = -1 THEN enter_short(a, price)
            ELSE a
      [] a.position = "LONG" ->
            IF sig <= 0 THEN exit_position(a, price) ELSE a
      [] a.position = "SHORT" ->
            IF sig >= 0 THEN exit_position(a, price) ELSE a

\* paper_trading_bot_Edited.handle_signal
edited_handle_signal(a, sig, price) ==
    CASE a.position = "FLAT" ->
            IF sig = 1 THEN enter_long(a, price)
            ELSE IF sig = -1 THEN enter_short(a, price)
            ELSE a
      [] a.position = "LONG" ->
            IF sig <= 0
            THEN LET x == exit_position(a, price)
                 IN  IF sig = -1 THEN enter_short(x, price) ELSE x
            ELSE a
      [] a.position = "SHORT" ->
            IF sig >= 0
            THEN LET x == exit_position(a, price)
                 IN  IF sig = 1 THEN enter_long(x, price) ELSE x
            ELSE a

\* mutant: the trade limit is tested with > instead of >=
kill_switch_late(tr, bal) ==
    tr > MAX_TRADES \/ bal - START_BALANCE <= MAX_DRAWDOWN

\* the two kill-switch tests of paper_trading_bot.run
kill_switch(tr, bal) ==
    tr >= MAX_TRADES \/ bal - START_BALANCE <= MAX_DRAWDOWN

record_equity(curve, ts, price, a) ==
    Append(curve, [timestamp |-> ts, balance |-> a.balance,
                   position |-> a.position, price |-> price])

\* record_equity: "if len(state.equity_curve) % 100 == 0: json.dump(...)",
\* the file opened with "w", so the dump replaces the file by the full curve
dump_equity(file, curve) ==
    IF Len(curve) % DumpEvery = 0 THEN curve ELSE file

SetAcct(a) ==
    /\ position' = a.position
    /\ entry_price' = a.entry_price
    /\ balance' = a.balance
    /\ trades' = a.trades
    /\ tradelog' = a.log

(***************************************************************************)
(* Parsing.  <<>> is None.                                                 *)
(***************************************************************************)
\* paper_trading_bot_Edited.parse_delta_candlestick: (ts, close) or None
parse_delta_candlestick(m) ==
    IF m.kind = "other" THEN <<>>
    ELSE IF m.kind = "badclose" THEN <<>>
    ELSE IF m.kind = "nots" THEN <<>>           \* KeyError
    ELSE <<m.ts, m.close>>

\* bot_final.parse_candle: (close, ts) or None
parse_candle(m) ==
    IF m.kind = "other" THEN <<>>
    ELSE IF m.kind = "badclose" THEN <<>>
    ELSE <<m.close, m.ts>>

\* bot.parse_candlestick_message behind the candlestick filter of run_bot:
\* the close (<<>> when it is None or the message is filtered out) and ts
parse_candlestick_message(m) ==
    IF m.kind = "other" THEN <<>>
    ELSE IF m.kind = "badclose" THEN <<>>
    ELSE <<m.close, m.ts>>

(***************************************************************************)
(* Initial states: one per program and configuration.                      *)
(***************************************************************************)
Setups ==
    {[prog |-> "paper", scripted |-> FALSE, WINDOW |-> PAPER_WINDOW,
      LONG_THRESH |-> PAPER_LONG_THRESH, SHORT_THRESH |-> PAPER_SHORT_THRESH,
      PRODUCT_ID |-> FALSE],
     [prog |-> "edited", scripted |-> FALSE, WINDOW |-> EDITED_WINDOW,
      LONG_THRESH |-> EDITED_LONG_THRESH, SHORT_THRESH |-> EDITED_SHORT_THRESH,
      PRODUCT_ID |-> FALSE],
     [prog |-> "edited", scripted |-> TRUE, WINDOW |-> EDITED_WINDOW,
      LONG_THRESH |-> SCENARIO_LONG_THRESH,
      SHORT_THRESH |-> SCENARIO_SHORT_THRESH, PRODUCT_ID |-> FALSE]}
    \cup
    {[prog |-> p, scripted |-> FALSE, WINDOW |-> LiveWindow,
      LONG_THRESH |-> LIVE_LONG_THRESH, SHORT_THRESH |-> LIVE_SHORT_THRESH,
      PRODUCT_ID |-> id] : p \in {"final", "bot"}, id \in BOOLEAN}

Init ==
    /\ \E s \in Setups :
        /\ prog = s.prog
        /\ scripted = s.scripted
        /\ WINDOW = s.WINDOW
        /\ LONG_THRESH = s.LONG_THRESH
        /\ SHORT_THRESH = s.SHORT_THRESH
        /\ PRODUCT_ID = s.PRODUCT_ID
    /\ pc = "run"
    /\ closes = <<>>
    /\ returns = <<>>
    /\ signal_buf = <<>>
    /\ last_signal = make_rolling_state(WINDOW).last_signal
    /\ position = "FLAT"
    /\ entry_price = <<>>
    /\ balance = START_BALANCE
    /\ trades = 0
    /\ last_candle_ts = <<>>
    /\ equity_curve = <<>>
    /\ equity_file = <<>>
    /\ ret_pct = Zero
    /\ signal = 0
    /\ orders = <<>>
    /\ tradelog = <<>>
    /\ fwd = <<>>
    /\ unread = 0
    /\ conn = "connecting"
    /\ backoff = IF prog = "final" THEN 1 ELSE 0
    /\ subs = 0
    /\ inflight = 0
    /\ fails = 0
    /\ attempts = 0
    /\ fwd_conn = 0

(***************************************************************************)
(* paper_trading_bot.run: one iteration of "async for msg in ws".          *)
(***************************************************************************)
\* mutant: the gate never holds a candle back
same_candle_never(ts, last) == FALSE

\* the candle gate of the paper bots: "if ts == last_candle_ts: continue"
same_candle(ts, last) == last = <<ts>>

Skip == UNCHANGED <<pc, winvars, accvars, last_candle_ts, eqvars,
                    orders, fwd, unread, connvars, inflight, fwd_conn>>

PaperRecv(m) ==
    /\ prog = "paper" /\ pc = "run" /\ Len(fwd) < MaxLen
    /\ conn = "connected"
    /\ UNCHANGED <<cfgvars, connvars, inflight>>
    /\ IF m.kind = "other"
       THEN Skip                                  \* no payload: continue
       ELSE IF m.kind \in {"badclose", "malformed", "nots"}
       THEN /\ pc' = "crashed"                    \* float() / KeyError /
                                                  \* JSONDecodeError
            /\ UNCHANGED <<winvars, accvars, last_candle_ts, eqvars,
                           orders, fwd, unread, fwd_conn>>
       ELSE IF same_candle(m.ts, last_candle_ts)
       THEN Skip                                  \* candle gating
       ELSE LET close == m.close
                r == compute_return(close, closes[Len(closes)])
                rp == IF closes # <<>> THEN RMulInt(r, 100) ELSE Zero
                sig == signal_from_return(rp, LONG_THRESH, SHORT_THRESH)
                buf == DequeAppend(signal_buf, sig, SIGNAL_BUF_LEN)
                a == paper_handle_signal(Acct, buf, sig, close, rp)
            IN  /\ last_candle_ts' = <<m.ts>>
                /\ returns' = IF closes # <<>>
                              THEN DequeAppend(returns, r, WINDOW)
                              ELSE returns
                /\ closes' = DequeAppend(closes, close, WINDOW + 1)
                /\ ret_pct' = rp
                /\ signal' = sig
                /\ signal_buf' = buf
                /\ SetAcct(a)
                /\ pc' = IF kill_switch(a.trades, a.balance)
                         THEN "halted" ELSE "run"
                /\ fwd' = Append(fwd, [ts |-> m.ts, close |-> close])
                /\ fwd_conn' = attempts
                /\ UNCHANGED <<last_signal, eqvars, orders, unread>>

\* the feed goes on sending after the loop was left: nothing reads it
FeedAfterStop ==
    /\ pc \in {"halted", "crashed"}
    /\ unread < MaxUnread
    /\ unread' = unread + 1
    /\ UNCHANGED <<cfgvars, pc, winvars, accvars, last_candle_ts,
                   eqvars, orders, fwd, connvars, inflight, fwd_conn>>

(***************************************************************************)
(* paper_trading_bot_Edited.consume_ws: one iteration of the loop.         *)
(***************************************************************************)
\* an exception reaches "except Exception" of run_forever / run_bot: the
\* connection is left and the handler sleeps
Raise ==
    /\ conn' = "sleeping"
    /\ subs' = 0
    /\ fails' = fails + 1
    /\ UNCHANGED <<backoff, attempts>>

\* ... and it was raised by a frame: nothing else has changed yet
RaiseOnFrame ==
    /\ Raise
    /\ UNCHANGED <<pc, winvars, accvars, last_candle_ts, eqvars,
                   orders, fwd, unread, inflight, fwd_conn>>

EditedRecv(m) ==
    /\ prog = "edited" /\ pc = "run" /\ Len(fwd) < MaxLen
    /\ conn = "connected"
    /\ UNCHANGED cfgvars
    /\ LET parsed == parse_delta_candlestick(m)
       IN  IF m.kind = "malformed"
           THEN RaiseOnFrame                      \* json.loads raises
           ELSE IF parsed = <<>>
           THEN Skip
           ELSE IF same_candle(parsed[1], last_candle_ts)
           THEN Skip
           ELSE LET ts == parsed[1]
                    close == parsed[2]
                    rets == IF closes # <<>>
                            THEN DequeAppend(returns,
                                   compute_return(close, closes[Len(closes)]),
                                   WINDOW)
                            ELSE returns
                    rp == RMulInt(rolling_mean(rets), 100)
                    sig == signal_from_return(rp, LONG_THRESH, SHORT_THRESH)
                    a == edited_handle_signal(Acct, sig, close)
                IN  /\ last_candle_ts' = <<ts>>
                    /\ returns' = rets
                    /\ closes' = DequeAppend(closes, close, WINDOW + 1)
                    /\ ret_pct' = rp
                    /\ signal' = sig
                    /\ SetAcct(a)
                    /\ equity_curve' = record_equity(equity_curve, ts, close, a)
                    /\ equity_file' = dump_equity(equity_file,
                                         record_equity(equity_curve, ts, close, a))
                    /\ fwd' = Append(fwd, [ts |-> ts, close |-> close])
                    /\ fwd_conn' = attempts
                    /\ UNCHANGED <<pc, signal_buf, last_signal, orders, unread,
                                   connvars, inflight>>

(***************************************************************************)
(* bot_final.run_bot and bot.run_bot: one iteration of the loop.           *)
(***************************************************************************)
\* mutant: a submission waits for the one before it
create_task_single(n) == IF n = 0 THEN 1 ELSE n

\* asyncio.create_task(place_market_order(...)): one more task in flight
create_task(n) == n + 1

\* mutant: every change of the signal dispatches an order
LiveStep_anychange(parsed) ==
    IF parsed = <<>>
    THEN Skip
    ELSE LET close == parsed[1]
             ts == parsed[2]
             u == update_returns_state(
                      [closes |-> closes, pct_deque |-> returns,
                       last_signal |-> last_signal], close, WINDOW)
             sig == compute_signal(u[2], LONG_THRESH, SHORT_THRESH)
             side == IF sig = 1 THEN "buy" ELSE "sell"
         IN  /\ closes' = u[1].closes
             /\ returns' = u[1].pct_deque
             /\ ret_pct' = u[2]
             /\ signal' = sig
             /\ orders' = IF sig # last_signal /\ PRODUCT_ID
                          THEN Append(orders, side) ELSE orders
             /\ inflight' = IF sig # last_signal /\ PRODUCT_ID
                            THEN create_task(inflight) ELSE inflight
             /\ last_signal' = sig
             /\ fwd' = Append(fwd, [ts |-> ts, close |-> close])
             /\ fwd_conn' = attempts
             /\ UNCHANGED <<pc, signal_buf, accvars, last_candle_ts,
                            eqvars, unread, connvars>>

LiveStep(parsed) ==
    IF parsed = <<>>
    THEN Skip
    ELSE LET close == parsed[1]
             ts == parsed[2]
             u == update_returns_state(
                      [closes |-> closes, pct_deque |-> returns,
                       last_signal |-> last_signal], close, WINDOW)
             sig == compute_signal(u[2], LONG_THRESH, SHORT_THRESH)
             side == IF sig = 1 THEN "buy" ELSE "sell"
         IN  /\ closes' = u[1].closes
             /\ returns' = u[1].pct_deque
             /\ ret_pct' = u[2]
             /\ signal' = sig
             /\ orders' = IF Abs(sig - last_signal) = 2 /\ PRODUCT_ID
                          THEN Append(orders, side) ELSE orders
             /\ inflight' = IF Abs(sig - last_signal) = 2 /\ PRODUCT_ID
                            THEN create_task(inflight) ELSE inflight
             /\ last_signal' = sig
             /\ fwd' = Append(fwd, [ts |-> ts, close |-> close])
             /\ fwd_conn' = attempts
             /\ UNCHANGED <<pc, signal_buf, accvars, last_candle_ts,
                            eqvars, unread, connvars>>

FinalRecv(m) ==
    /\ prog = "final" /\ pc = "run" /\ Len(fwd) < MaxLen
    /\ conn = "connected"
    /\ UNCHANGED cfgvars
    /\ IF m.kind = "malformed"
       THEN RaiseOnFrame                          \* json.loads raises
       ELSE LiveStep(parse_candle(m))

BotRecv(m) ==
    /\ prog = "bot" /\ pc = "run" /\ Len(fwd) < MaxLen
    /\ conn = "connected"
    /\ UNCHANGED cfgvars
    /\ IF m.kind = "malformed"
       THEN Skip                                  \* except Exception: continue
       ELSE LiveStep(parse_candlestick_message(m))

\* place_market_order: the response of a submission arrives
OrderDone ==
    /\ inflight > 0
    /\ inflight' = inflight - 1
    /\ UNCHANGED <<cfgvars, pc, winvars, accvars, last_candle_ts,
                   eqvars, orders, fwd, unread, connvars, fwd_conn>>

(***************************************************************************)
(* The connection: websockets.connect, the subscribe request, and in       *)
(* bot_final.run_bot / paper_trading_bot_Edited.run_forever the handler    *)
(* that sleeps and tries again.                                            *)
(***************************************************************************)
Frame == UNCHANGED <<cfgvars, pc, winvars, accvars, last_candle_ts,
                     eqvars, orders, fwd, unread, inflight, fwd_conn>>

Reconnecting == prog \in {"final", "edited"}

\* mutant: the wait doubles without a ceiling
next_backoff_uncapped(b) == b * 2

\* backoff = min(backoff * 2, 60)
next_backoff(b) == Min(b * 2, 60)

\* mutant: the wait of the last connection is kept
reset_backoff_keep(b) == b

\* backoff = 1  # reset on success
reset_backoff(b) == 1

\* "async with websockets.connect(...) as ws" succeeds
Connect ==
    /\ conn = "connecting" /\ pc = "run" /\ attempts < MaxAttempts
    /\ conn' = "open"
    /\ attempts' = attempts + 1
    /\ fails' = 0
    /\ subs' = 0
    /\ backoff' = IF prog = "final" THEN reset_backoff(backoff) ELSE backoff
    /\ Frame

\* mutant: the subscribe request is not sent
send_subscribe_skip(n) == n

\* await ws.send(json.dumps(subscribe_msg()))
send_subscribe(n) == n + 1

Subscribe ==
    /\ conn = "open"
    /\ subs' = send_subscribe(subs)
    /\ conn' = "connected"
    /\ UNCHANGED <<backoff, fails, attempts>>
    /\ Frame

\* websockets.connect raises
ConnectFail ==
    /\ Reconnecting
    /\ conn = "connecting" /\ attempts < MaxAttempts
    /\ conn' = "sleeping"
    /\ subs' = 0
    /\ fails' = fails + 1
    /\ attempts' = attempts + 1
    /\ UNCHANGED backoff
    /\ Frame

\* ws.send raises, or "async for" raises ConnectionClosedError
TransportError ==
    /\ Reconnecting
    /\ conn \in {"open", "connected"}
    /\ Raise
    /\ Frame

\* the server closes the stream normally: "async for" ends without an
\* exception, "async with" is left and "while True" starts over
ServerClose ==
    /\ Reconnecting
    /\ conn = "connected"
    /\ conn' = "connecting"
    /\ subs' = 0
    /\ UNCHANGED <<backoff, fails, attempts>>
    /\ Frame

\* mutant: the handler leaves the loop after the sleep
Wake_break ==
    /\ Reconnecting
    /\ conn = "sleeping"
    /\ conn' = "stopped"
    /\ UNCHANGED <<backoff, subs, fails, attempts>>
    /\ Frame

\* asyncio.sleep(backoff) / asyncio.sleep(RECONNECT_DELAY) returns
Wake ==
    /\ Reconnecting
    /\ conn = "sleeping"
    /\ conn' = "connecting"
    /\ backoff' = IF prog = "final" THEN next_backoff(backoff) ELSE backoff
    /\ UNCHANGED <<subs, fails, attempts>>
    /\ Frame

\* the time the handler sleeps
sleep_time == IF prog = "final" THEN backoff ELSE RECONNECT_DELAY

\* one connection that does not fail, fed well-formed JSON
Next ==
    \/ Connect
    \/ Subscribe
    \/ \E m \in Inbox : PaperRecv(m)
    \/ \E m \in Inbox : EditedRecv(m)
    \/ \E m \in Inbox : FinalRecv(m)
    \/ \E m \in Inbox : BotRecv(m)
    \/ OrderDone
    \/ FeedAfterStop

Spec == Init /\ [][Next]_vars

\* what the feed may send while the transport may fail
ConnInbox ==
    IF prog = "edited"
    THEN {Candle(t, c) : t \in ConnEditedTimestamps, c \in ConnEditedCloses}
            \cup {Other, BadClose, Malformed, NoTs(198)}
    ELSE {Candle(t, c) : t \in ConnLiveTimestamps, c \in ConnLiveCloses}
            \cup {Other, BadClose, Malformed, NoTs(100)}

\* the reconnecting loops, with every way a connection can end
InitConn == Init /\ Reconnecting /\ ~scripted

NextConn ==
    \/ Connect
    \/ Subscribe
    \/ ConnectFail
    \/ TransportError
    \/ ServerClose
    \/ Wake
    \/ \E m \in ConnInbox : Len(fwd) < MaxFwdConn /\ EditedRecv(m)
    \/ \E m \in ConnInbox : Len(fwd) < MaxFwdConn /\ FinalRecv(m)
    \/ OrderDone

SpecConn == InitConn /\ [][NextConn]_vars

\* asyncio resumes a sleeping handler when its time is up
SpecConnFair == SpecConn /\ WF_vars(Wake)

(***************************************************************************)
(* Helpers of the properties.                                              *)
(***************************************************************************)
Last(s) == s[Len(s)]

\* a candle was passed on to the pipeline in this step
Processed == Len(fwd') = Len(fwd) + 1

\* the fractional change from the (i-1)-th to the i-th close of history h,
\* counted 0 when the previous close is 0
Change(h, i) ==
    IF h[i - 1].close = 0 THEN Zero
    ELSE Norm(h[i].close - h[i - 1].close, h[i - 1].close)

RECURSIVE SumChanges(_, _, _)
SumChanges(h, from, to) ==
    IF from > to THEN Zero
    ELSE RAdd(Change(h, from), SumChanges(h, from + 1, to))

\* 100 times the mean of the last min(n - 1, w) changes of h; 0 when n = 1
MeanOfLast(h, w) ==
    LET n == Len(h)
        k == Min(n - 1, w)
    IN  IF k = 0 THEN Zero
        ELSE Norm(100 * SumChanges(h, n - k + 1, n)[1],
                  k * SumChanges(h, n - k + 1, n)[2])

(***************************************************************************)
(* C1.  After the n-th close fed to update_returns_state (bot.py,          *)
(* bot_final.py) or to the window update of consume_ws (edited), the       *)
(* value returned is 100 times the arithmetic mean of the last             *)
(* min(n - 1, W) percentage changes between consecutive closes, a change   *)
(* counting 0 when the previous close is 0, and it is 0 when n = 1.        *)
(***************************************************************************)
C1_RollingMean ==
    (prog \in {"edited", "final", "bot"} /\ fwd # <<>>)
        => ret_pct = MeanOfLast(fwd, WINDOW)

\* more closes than the window holds, the evicted change and the result
\* both non-zero, and a change counted 0 because the previous close is 0
C1_Witness ==
    /\ prog = "final"
    /\ Len(fwd) = WINDOW + 2
    /\ Change(fwd, 2) # Zero
    /\ fwd[Len(fwd) - 1].close = 0
    /\ ret_pct # Zero

(***************************************************************************)
(* C2.  As claimed: in the paper bots at most one candle per distinct      *)
(* timestamp is passed on to the pipeline, for any arrival sequence,       *)
(* also when a timestamp reappears after another one was passed on         *)
(* (A, B, A).                                                              *)
(***************************************************************************)
C2_OnePerTimestamp ==
    prog \in {"paper", "edited"}
        => \A i, j \in 1..Len(fwd) : i # j => fwd[i].ts # fwd[j].ts

(***************************************************************************)
(* C2 as amended.  In the paper bots a parsed candle is held back exactly  *)
(* when its timestamp equals that of the last candle passed on: every      *)
(* other candle is appended to the candles passed on, in arrival order,    *)
(* so no two consecutive candles passed on share a timestamp; a timestamp  *)
(* that reappears after another one (A, B, A) is passed on again.          *)
(***************************************************************************)
C2_GateOnLastOnly ==
    [][(prog \in {"paper", "edited"}) =>
        (/\ \A m \in Inbox :
              (m.kind = "candle" /\ (PaperRecv(m) \/ EditedRecv(m))) =>
                 (/\ last_candle_ts # <<m.ts>>
                  /\ fwd' = Append(fwd, [ts |-> m.ts, close |-> m.close])
                  /\ last_candle_ts' = <<m.ts>>)
         /\ (fwd' # fwd => \E m \in Inbox :
                 (/\ m.kind = "candle"
                  /\ fwd' = Append(fwd, [ts |-> m.ts, close |-> m.close])))
         /\ \A i \in 1..(Len(fwd') - 1) : fwd'[i].ts # fwd'[i + 1].ts)
    ]_vars

\* A, B, A: the first timestamp was passed on a second time
C2_Witness ==
    /\ prog = "edited"
    /\ Len(fwd) = 3
    /\ fwd[1].ts = fwd[3].ts
    /\ fwd[1].ts # fwd[2].ts

(***************************************************************************)
(* C3.  As claimed: in the live bots a candle message whose timestamp is   *)
(* that of the candle message delivered just before it leaves the rolling  *)
(* window and last_signal as they were and dispatches no order.            *)
(***************************************************************************)
C3_DuplicateIsIdempotent ==
    [][(/\ prog \in {"final", "bot"}
        /\ fwd # <<>>
        /\ \E m \in Inbox :
              (/\ m.kind = "candle"
               /\ m.ts = Last(fwd).ts
               /\ (FinalRecv(m) \/ BotRecv(m))))
        => UNCHANGED <<closes, returns, last_signal, orders>>
    ]_vars

(***************************************************************************)
(* Helpers for the claims about handle_signal: the step processed a        *)
(* candle of a paper bot; its close is the price handed to handle_signal  *)
(* and signal' the signal handed to it.                                    *)
(***************************************************************************)
PaperStep == prog \in {"paper", "edited"} /\ Processed

Price == Last(fwd').close

\* paper_trading_bot acts on a signal only when the signal buffer holds
\* SIGNAL_BUF_LEN entries all equal to it; the edited bot has no buffer
Confirmed ==
    \/ prog = "edited"
    \/ /\ Len(signal_buf') = SIGNAL_BUF_LEN
       /\ \A i \in 1..Len(signal_buf') : signal_buf'[i] = signal'

NewLines == SubSeq(tradelog', Len(tradelog) + 1, Len(tradelog'))

\* the transition table for directional signals
Table ==
    /\ (position = "FLAT" /\ signal' = 1) =>
          (/\ position' = "LONG" /\ entry_price' = <<Price>>
           /\ NewLines = <<LogLine("ENTER", "LONG", Price, 0)>>)
    /\ (position = "FLAT" /\ signal' = -1) =>
          (/\ position' = "SHORT" /\ entry_price' = <<Price>>
           /\ NewLines = <<LogLine("ENTER", "SHORT", Price, 0)>>)
    /\ (position = "LONG" /\ signal' = -1) =>
          (/\ position' = "SHORT" /\ entry_price' = <<Price>>
           /\ Len(NewLines) = 2
           /\ NewLines[1].ev = "EXIT" /\ NewLines[1].price = Price
           /\ NewLines[2] = LogLine("ENTER", "SHORT", Price, 0))
    /\ (position = "SHORT" /\ signal' = 1) =>
          (/\ position' = "LONG" /\ entry_price' = <<Price>>
           /\ Len(NewLines) = 2
           /\ NewLines[1].ev = "EXIT" /\ NewLines[1].price = Price
           /\ NewLines[2] = LogLine("ENTER", "LONG", Price, 0))

NoChangeRows ==
    (\/ position = "LONG" /\ signal' = 1
     \/ position = "SHORT" /\ signal' = -1
     \/ position = "FLAT" /\ signal' = 0) => UNCHANGED accvars

(***************************************************************************)
(* C4.  As claimed: handle_signal follows the transition table for every   *)
(* directional signal it is handed: FLAT and LONG gives LONG at price,     *)
(* FLAT and SHORT gives SHORT at price, LONG and SHORT exits at price and  *)
(* enters SHORT at the same price in the same step, SHORT and LONG         *)
(* symmetrically; a signal equal to the current side, and NEUTRAL while    *)
(* FLAT, change nothing.                                                   *)
(***************************************************************************)
C4_TableForEverySignal ==
    [][PaperStep => (Table /\ NoChangeRows)]_vars

(***************************************************************************)
(* C4 as amended.  The table holds for every directional signal that       *)
(* handle_signal acts on: every signal in the edited bot, and in           *)
(* paper_trading_bot a signal that fills the signal buffer (the last       *)
(* SIGNAL_BUF_LEN raw signals all equal it).  In paper_trading_bot a       *)
(* signal that does not fill the buffer changes nothing.  A signal equal   *)
(* to the current side, and NEUTRAL while FLAT, change nothing.            *)
(***************************************************************************)
C4_TableForConfirmedSignal ==
    [][PaperStep =>
          (/\ Confirmed => Table
           /\ ~Confirmed => UNCHANGED accvars
           /\ NoChangeRows)]_vars

\* paper_trading_bot has reversed from LONG to SHORT in one step
C4_Witness ==
    /\ prog = "paper"
    /\ Len(tradelog) >= 3
    /\ tradelog[Len(tradelog) - 1].ev = "EXIT"
    /\ tradelog[Len(tradelog) - 1].side = "LONG"
    /\ Last(tradelog) = LogLine("ENTER", "SHORT", Last(fwd).close, 0)
    /\ position = "SHORT"

(***************************************************************************)
(* C5.  As claimed: while the position is LONG or SHORT a NEUTRAL signal   *)
(* exits only when |mean_return_percent| < exit_deadband; with             *)
(* |mean_return_percent| >= exit_deadband it leaves position, entry        *)
(* price, balance and trade count unchanged.                               *)
(***************************************************************************)
C5_DeadbandGuardsNeutralExit ==
    [][(PaperStep /\ position \in {"LONG", "SHORT"} /\ signal' = 0
            /\ ~RLess(RAbs(ret_pct'), EXIT_DEADBAND))
        => UNCHANGED <<position, entry_price, balance, trades>>]_vars

(***************************************************************************)
(* C6.  The trade count increases only in enter_long / enter_short: it     *)
(* always equals the number of ENTER lines logged, a step that only exits  *)
(* leaves it unchanged, an entry from FLAT and a reversal each add exactly *)
(* 1, and no step adds more than 1.                                        *)
(***************************************************************************)
CountEnter(log) == Cardinality({i \in 1..Len(log) : log[i].ev = "ENTER"})

C6_TradesCountEntries ==
    [][(prog \in {"paper", "edited"}) =>
          (/\ trades' = CountEnter(tradelog')
           /\ trades' - trades = CountEnter(NewLines)
           /\ trades' \in {trades, trades + 1}
           /\ (position # "FLAT" /\ position' = "FLAT") => trades' = trades
           /\ (position = "FLAT" /\ position' # "FLAT") => trades' = trades + 1
           /\ (position # "FLAT" /\ position' # "FLAT" /\ position' # position)
                 => trades' = trades + 1
           /\ ~Processed => trades' = trades)]_vars

\* an entry, a reversal and then a step that only exits
C6_Witness ==
    /\ prog = "edited"
    /\ position = "FLAT"
    /\ trades = 2
    /\ Len(tradelog) = 4
    /\ tradelog[2].ev = "EXIT"
    /\ tradelog[3].ev = "ENTER"
    /\ Last(tradelog).ev = "EXIT"

(***************************************************************************)
(* C7.  The balance changes only in exit_position: leaving LONG adds       *)
(* (price - entry_price) * POSITION_SIZE, leaving SHORT adds               *)
(* (entry_price - price) * POSITION_SIZE, so a LONG gains iff the exit     *)
(* price is above the entry price and a SHORT iff it is below; entries,    *)
(* exit_position while FLAT and steps that change no position leave the    *)
(* balance unchanged.                                                      *)
(***************************************************************************)
C7_BalanceOnlyOnExit ==
    [][(prog \in {"paper", "edited"}) =>
          (/\ (position = "LONG" /\ position' # "LONG") =>
                 (/\ Processed
                  /\ balance' = balance + (Price - entry_price[1]) * POSITION_SIZE
                  /\ (balance' > balance <=> Price > entry_price[1]))
           /\ (position = "SHORT" /\ position' # "SHORT") =>
                 (/\ Processed
                  /\ balance' = balance + (entry_price[1] - Price) * POSITION_SIZE
                  /\ (balance' > balance <=> Price < entry_price[1]))
           /\ (position = "FLAT" \/ position' = position) => balance' = balance
           /\ position = "FLAT" =>
                 \A p \in CloseAlphabet : exit_position(Acct, p) = Acct)]_vars

\* a SHORT was left below its entry price, at a gain
C7_Witness ==
    /\ tradelog # <<>>
    /\ Last(tradelog).ev = "EXIT"
    /\ Last(tradelog).side = "SHORT"
    /\ Last(tradelog).pnl > 0
    /\ position = "FLAT"
    /\ balance = START_BALANCE + Last(tradelog).pnl

(***************************************************************************)
(* C8.  In paper_trading_bot.run the loop is left exactly at the first     *)
(* processed candle after which trades = MAX_TRADES or                     *)
(* balance - START_BALANCE <= MAX_DRAWDOWN: while neither holds every new  *)
(* candle is processed, once the loop is left no later message changes     *)
(* window, position, balance or trades, and trades never exceeds           *)
(* MAX_TRADES.                                                             *)
(***************************************************************************)
KillCond ==
    trades = MAX_TRADES \/ balance - START_BALANCE <= MAX_DRAWDOWN

C8_HaltsExactlyAtKillSwitch ==
    [][(prog = "paper") =>
          (/\ trades' <= MAX_TRADES
           /\ KillCond' <=> pc' = "halted"
           /\ (pc = "run" /\ pc' = "halted") => Processed
           /\ \A m \in Inbox :
                 (m.kind = "candle" /\ last_candle_ts # <<m.ts>> /\ PaperRecv(m))
                    => Processed
           /\ pc = "halted" =>
                 UNCHANGED <<pc, winvars, accvars, last_candle_ts, fwd>>)]_vars

\* left by the trade limit alone, and a later message changed nothing
C8_Witness ==
    /\ prog = "paper"
    /\ pc = "halted"
    /\ trades = MAX_TRADES
    /\ balance - START_BALANCE > MAX_DRAWDOWN
    /\ unread > 0

(***************************************************************************)
(* C9.  The worked scenario (W = 2, size 1, thresholds +-0.1 %, start      *)
(* balance 100000, closes 100, 101, 99, 98, 105 with distinct timestamps)  *)
(* run through the edited bot: FLAT after 100; LONG at 101 with 1 trade;   *)
(* SHORT at 99 with balance 99998 and 2 trades; unchanged at 98; LONG at   *)
(* 105 with balance 99992 and 3 trades at the end.                         *)
(***************************************************************************)
AcctIs(pos, entry, bal, tr) ==
    /\ position = pos
    /\ entry_price = entry
    /\ balance = bal
    /\ trades = tr

C9_Scenario ==
    scripted =>
        /\ \A i \in 1..Len(fwd) :
              fwd[i] = [ts |-> i, close |-> ScenarioCloses[i]]
        /\ Len(fwd) <= 1 => AcctIs("FLAT", <<>>, 100000, 0)
        /\ Len(fwd) = 2 => AcctIs("LONG", <<101>>, 100000, 1)
        /\ Len(fwd) = 3 => AcctIs("SHORT", <<99>>, 99998, 2)
        /\ Len(fwd) = 4 => AcctIs("SHORT", <<99>>, 99998, 2)
        /\ Len(fwd) = 5 => AcctIs("LONG", <<105>>, 99992, 3)

C9_Witness ==
    /\ scripted
    /\ prog = "edited"
    /\ Len(fwd) = 5
    /\ Len(tradelog) = 5

(***************************************************************************)
(* C10.  compute_signal / signal_from_return give LONG (1) for every       *)
(* return strictly above the long threshold, SHORT (-1) for every return   *)
(* strictly below the short threshold and NEUTRAL (0) otherwise, also      *)
(* when the return equals a threshold.                                     *)
(***************************************************************************)
SignalOf(r, long, short) ==
    CASE r[1] * long[2] > long[1] * r[2] -> 1
      [] r[1] * short[2] < short[1] * r[2] -> -1
      [] OTHER -> 0

\* returns around and on both thresholds
ProbeReturns ==
    {<<n, LONG_THRESH[2]>> : n \in (-3 * LONG_THRESH[1])..(3 * LONG_THRESH[1])}

C10_SignalThresholds ==
    /\ fwd # <<>> => signal = SignalOf(ret_pct, LONG_THRESH, SHORT_THRESH)
    /\ \A r \in ProbeReturns :
          /\ signal_from_return(r, LONG_THRESH, SHORT_THRESH)
                = SignalOf(r, LONG_THRESH, SHORT_THRESH)
          /\ compute_signal(r, LONG_THRESH, SHORT_THRESH)
                = SignalOf(r, LONG_THRESH, SHORT_THRESH)

\* a processed return equal to the long threshold gave NEUTRAL
C10_Witness ==
    /\ fwd # <<>>
    /\ ret_pct = LONG_THRESH
    /\ signal = 0

(***************************************************************************)
(* C11.  In bot_final.run_bot the reconnect wait starts at 1 and doubles   *)
(* with each consecutive failure (1, 2, 4, 8, 16, 32, 60, 60, ...): the    *)
(* k-th failure since the last connection made sleeps min(2^(k-1), 60),    *)
(* after it backoff is min(2^k, 60), and 1 <= backoff <= 60 always.        *)
(***************************************************************************)
RECURSIVE Pow2(_)
Pow2(n) == IF n <= 0 THEN 1 ELSE 2 * Pow2(n - 1)

C11_BackoffDoublesToCeiling ==
    (prog = "final") =>
        /\ 1 <= backoff
        /\ backoff <= 60
        /\ conn = "sleeping" => sleep_time = Min(Pow2(fails - 1), 60)
        /\ conn # "sleeping" => backoff = Min(Pow2(fails), 60)

\* the eighth failure in a row sleeps 60, as the seventh did
C11_Witness ==
    /\ prog = "final"
    /\ conn = "sleeping"
    /\ fails = 8
    /\ sleep_time = 60

(***************************************************************************)
(* C12.  In bot_final.run_bot and paper_trading_bot_Edited.run_forever no  *)
(* failed connection attempt, transport error or disconnect ends the loop: *)
(* the loop is never left, and whenever the handler sleeps after a failure *)
(* a new connection attempt follows (the event loop resumes the sleeper).  *)
(***************************************************************************)
C12_FailureIsRetried ==
    /\ [](pc = "run" /\ conn \in {"connecting", "open", "connected", "sleeping"})
    /\ (conn = "sleeping") ~> (conn = "connecting")

\* a new attempt is being made after a failed attempt and a lost connection
C12_Witness ==
    /\ prog = "edited"
    /\ conn = "connecting"
    /\ fails = 2
    /\ fwd # <<>>

(***************************************************************************)
(* C13.  As claimed: while connected, a received frame that is malformed,  *)
(* is not a candle message, or is a candle message without a usable close  *)
(* or timestamp is discarded: window, last signal, last forwarded          *)
(* timestamp, position, balance and trade count stay as they are, nothing  *)
(* is passed on to the pipeline, and the connection stays up.              *)
(***************************************************************************)
BadFrames == {m \in ConnInbox : m.kind # "candle"}

C13_BadFrameIsDiscarded ==
    [][\A m \in BadFrames :
          (EditedRecv(m) \/ FinalRecv(m))
             => UNCHANGED <<winvars, accvars, last_candle_ts, fwd, conn>>]_vars

(***************************************************************************)
(* C14.  As claimed: in the live bots at most one place_market_order       *)
(* submission is outstanding at any moment.                                *)
(***************************************************************************)
C14_SingleFlight ==
    (prog \in {"final", "bot"}) => inflight <= 1

(***************************************************************************)
(* C15.  As claimed: in paper_trading_bot_Edited the kill-switches are     *)
(* tested after each processed candle and halting is final: once           *)
(* trades >= MAX_TRADES or balance - START_BALANCE <= MAX_DRAWDOWN holds   *)
(* after a candle, no later candle is processed, on this connection or     *)
(* after a reconnect, so trades never exceeds MAX_TRADES.                  *)
(***************************************************************************)
C15_EditedHaltIsTerminal ==
    [][(prog = "edited") =>
          /\ kill_switch(trades, balance) => ~Processed
          /\ trades' <= MAX_TRADES]_vars

(***************************************************************************)
(* C16.  On every connection made in bot_final.run_bot backoff is reset to *)
(* 1 and exactly one subscribe request is sent before any frame of that    *)
(* connection is consumed: a frame is consumed only on a connection with   *)
(* one subscribe request sent and backoff = 1 (one request sent also in    *)
(* paper_trading_bot_Edited.consume_ws).                                   *)
(***************************************************************************)
FrameConsumed == \E m \in ConnInbox : EditedRecv(m) \/ FinalRecv(m)

C16_SubscribeOncePerConnection ==
    [][/\ (conn # "open" /\ conn' = "open") =>
             (subs' = 0 /\ (prog = "final" => backoff' = 1))
       /\ conn' = "connected" =>
             (subs' = 1 /\ (prog = "final" => backoff' = 1))
       /\ (conn = "connected" /\ conn' = "connected") => subs' = subs
       /\ FrameConsumed =>
             (subs = 1 /\ (prog = "final" => backoff = 1))]_vars

\* the second connection of the run has consumed a candle
C16_Witness ==
    /\ prog = "final"
    /\ conn = "connected"
    /\ attempts = 2
    /\ subs = 1
    /\ backoff = 1
    /\ Len(fwd) = 1

(***************************************************************************)
(* C17.  As claimed: every end of a connection in the reconnecting loops,  *)
(* by an error or by the server closing the stream normally, is followed   *)
(* by a sleep of backoff (bot_final) or RECONNECT_DELAY (edited) before    *)
(* the next connection attempt: no attempt follows a disconnect directly.  *)
(***************************************************************************)
C17_WaitBeforeReconnect ==
    [][/\ (conn \in {"open", "connected"} /\ conn' \notin {"open", "connected"})
             => (conn' = "sleeping" /\ sleep_time' >= 1)
       /\ (conn # "connecting" /\ conn' = "connecting") => conn = "sleeping"]_vars

(***************************************************************************)
(* C18.  As claimed: a disconnect, the wait and the reconnect leave        *)
(* closes, returns, last signal, last forwarded timestamp, position, entry *)
(* price, balance, trade count and equity curve unchanged, and a candle    *)
(* that arrives on a later connection than the last forwarded candle, with *)
(* that candle's timestamp, is discarded.                                  *)
(***************************************************************************)
ReconnectKeepsState ==
    (conn # "connected" \/ conn' # "connected") =>
        UNCHANGED <<closes, returns, last_signal, last_candle_ts, position,
                    entry_price, balance, trades, equity_curve>>

ReplayIsDiscarded ==
    \A m \in ConnInbox :
       (/\ m.kind = "candle"
        /\ fwd # <<>>
        /\ fwd_conn < attempts
        /\ m.ts = Last(fwd).ts
        /\ (EditedRecv(m) \/ FinalRecv(m)))
          => UNCHANGED <<winvars, accvars, last_candle_ts, equity_curve, fwd>>

C18_ReconnectKeepsStateAndGate ==
    [][ReconnectKeepsState /\ ReplayIsDiscarded]_vars

(***************************************************************************)
(* C19.  In paper_trading_bot (K = SIGNAL_BUF_LEN = 2) a processed candle  *)
(* changes position, entry price, balance or trades only if the signal     *)
(* buffer then holds K raw signals all equal to the candle's raw signal;   *)
(* otherwise they stay as they were, and nothing is entered before K       *)
(* candles have been processed.                                            *)
(***************************************************************************)
BufferConfirms(buf, sig) ==
    /\ Len(buf) = SIGNAL_BUF_LEN
    /\ \A i \in 1..Len(buf) : buf[i] = sig

C19_ActsOnlyOnConfirmedSignal ==
    [][(prog = "paper") =>
          /\ ~(Processed /\ BufferConfirms(signal_buf', signal'))
                => UNCHANGED <<position, entry_price, balance, trades>>
          /\ Processed =>
                signal_buf' = DequeAppend(signal_buf, signal', SIGNAL_BUF_LEN)
          /\ Len(fwd') < SIGNAL_BUF_LEN => (trades' = 0 /\ position' = "FLAT")]_vars

\* a raw LONG signal that the buffer did not confirm was held back while
\* SHORT, after the SHORT had been entered on a confirmed signal
C19_Witness ==
    /\ prog = "paper"
    /\ position = "SHORT"
    /\ signal = 1
    /\ signal_buf = <<-1, 1>>
    /\ trades = 1

(***************************************************************************)
(* C20.  As claimed: in paper_trading_bot.run the value given to           *)
(* signal_from_return and handle_signal for a processed candle is the      *)
(* rolling return, 100 times the mean change over the last W changes held  *)
(* in the returns window, not only the latest change.                      *)
(***************************************************************************)
C20_PaperUsesRollingReturn ==
    (prog = "paper" /\ fwd # <<>>) =>
        /\ ret_pct = RMulInt(rolling_mean(returns), 100)
        /\ signal = signal_from_return(RMulInt(rolling_mean(returns), 100),
                                       LONG_THRESH, SHORT_THRESH)

(***************************************************************************)
(* Shutdown of paper_trading_bot_Edited: asyncio.run(run_forever()) is     *)
(* cancelled.  CancelledError is raised at the await the task is parked    *)
(* on; it is not an Exception, so "except Exception" of run_forever does   *)
(* not catch it, and there is no finally block and no handler that writes  *)
(* EQUITY_FILE.                                                            *)
(***************************************************************************)
Cancel ==
    /\ prog = "edited" /\ pc = "run"
    /\ pc' = "cancelled"
    /\ UNCHANGED <<cfgvars, winvars, accvars, last_candle_ts, eqvars,
                   orders, fwd, unread, connvars, inflight, fwd_conn>>

InitShutdown == Init /\ prog = "edited" /\ ~scripted

NextShutdown ==
    \/ Connect
    \/ Subscribe
    \/ \E m \in Inbox : EditedRecv(m)
    \/ Cancel

\* paper_trading_bot_Edited on one connection, cancelled at any await
SpecShutdown == InitShutdown /\ [][NextShutdown]_vars

\* the longest prefix of the curve whose length is a multiple of DumpEvery
LastDump(curve) ==
    SubSeq(curve, 1, Len(curve) - (Len(curve) % DumpEvery))

\* C21, first half: the equity curve only grows, by exactly one snapshot per
\* forwarded candle and by nothing otherwise, and EQUITY_FILE holds the full
\* curve whenever the length of the curve is a multiple of the dump period.
C21_OneSnapshotPerCandle ==
    [][/\ IF Processed
          THEN /\ Len(equity_curve') = Len(equity_curve) + 1
               /\ SubSeq(equity_curve', 1, Len(equity_curve)) = equity_curve
               /\ Last(equity_curve').timestamp = Last(fwd').ts
               /\ Last(equity_curve').price = Last(fwd').close
               /\ Last(equity_curve').balance = balance'
               /\ Last(equity_curve').position = position'
          ELSE equity_curve' = equity_curve
       /\ (Len(equity_curve') % DumpEvery = 0) => equity_file' = equity_curve'
      ]_vars

\* C21: in paper_trading_bot_Edited the equity curve is append-only with
\* one snapshot per forwarded candle, the full curve is written to the file
\* whenever its length is a multiple of the dump period, and after shutdown
\* (cancellation of run_forever) the file equals the in-memory curve.
C21_EquityFlushedOnShutdown ==
    /\ C21_OneSnapshotPerCandle
    /\ [](pc = "cancelled" => equity_file = equity_curve)

\* what the code does: after shutdown the file holds the last periodic dump
C21_FileIsLastDump == equity_file = LastDump(equity_curve)

\* cancelled with three snapshots in memory and two in the file
C21_Witness ==
    /\ pc = "cancelled"
    /\ Len(equity_curve) = 3
    /\ Len(equity_file) = 2

\* the change from close a to close b as the window stores it: the fraction
\* (b - a) / a, and 0 when a is 0
StoredChange(a, b) == IF a = 0 THEN Zero ELSE Norm(b - a, a)

\* C22: in every reachable state of the rolling window len(returns) <= W,
\* len(closes) <= W + 1, len(returns) = max(0, len(closes) - 1), and the i-th
\* stored return is the change from the i-th to the (i+1)-th stored close
\* (0 when the i-th stored close is 0), also after evictions.
C22_WindowInvariant ==
    /\ Len(returns) <= WINDOW
    /\ Len(closes) <= WINDOW + 1
    /\ Len(returns) = (IF Len(closes) = 0 THEN 0 ELSE Len(closes) - 1)
    /\ \A i \in 1..Len(returns) :
           returns[i] = StoredChange(closes[i], closes[i + 1])

\* both deques are full after an eviction, a stored close other than the
\* newest is 0, and a stored return is not 0
C22_Witness ==
    /\ Len(closes) = WINDOW + 1
    /\ Len(returns) = WINDOW
    /\ Len(fwd) > WINDOW + 1
    /\ \E i \in 1..WINDOW : closes[i] = 0
    /\ \E i \in 1..WINDOW : returns[i] # Zero

\* a processed candle of paper_trading_bot hands handle_signal a NEUTRAL
\* signal that fills the signal buffer while a position is open
ConfirmedNeutralInPosition ==
    /\ prog = "paper" /\ Processed
    /\ position \in {"LONG", "SHORT"}
    /\ signal' = 0
    /\ BufferConfirms(signal_buf', signal')

C23_HeldOutsideDeadband ==
    /\ prog = "paper"
    /\ signal = 0
    /\ signal_buf = <<0, 0>>
    /\ ~RLess(RAbs(ret_pct), EXIT_DEADBAND)
    /\ position = "LONG"

\* the ENTER lines of a trade log
Entries(log) == {i \in 1..Len(log) : log[i].ev = "ENTER"}

\* the last ENTER line of a trade log that has one
LastEntry(log) ==
    log[CHOOSE i \in Entries(log) : \A j \in Entries(log) : j <= i]

\* between processed candles the entry price is unset exactly when FLAT,
\* and otherwise it is the price of the last entry, made on the open side
EntryPriceMatchesPosition ==
    /\ (entry_price = <<>>) <=> (position = "FLAT")
    /\ position # "FLAT" =>
          /\ Entries(tradelog) # {}
          /\ LastEntry(tradelog).side = position
          /\ entry_price = <<LastEntry(tradelog).price>>

\* C24: in the paper bots, in every state between processed candles,
\* entry_price is unset exactly when position is FLAT, and when position is
\* LONG or SHORT entry_price is the close of the candle on which that
\* position was entered: a step that opens or reverses a position sets it to
\* the close of the candle of that step, and every other step keeps it while
\* the position stays open.
C24_EntryPriceTracksPosition ==
    /\ []((prog \in {"paper", "edited"}) => EntryPriceMatchesPosition)
    /\ [][(prog \in {"paper", "edited"}) =>
            /\ (position' # "FLAT" /\ position' # position)
                  => (Processed /\ entry_price' = <<Price>>)
            /\ (position' # "FLAT" /\ position' = position)
                  => entry_price' = entry_price]_vars

\* a SHORT entered by a reversal is still open after a later candle with
\* another close, and the entry price is still the close of the reversal
C24_Witness ==
    /\ prog \in {"paper", "edited"}
    /\ position = "SHORT"
    /\ Len(tradelog) = 3
    /\ Last(tradelog) = LogLine("ENTER", "SHORT", entry_price[1], 0)
    /\ Len(fwd) >= 2
    /\ fwd[Len(fwd) - 1].close = entry_price[1]
    /\ Last(fwd).close # entry_price[1]

\* the signal of the k-th processed candle, recomputed from the candles
\* processed so far; before the first candle last_signal is 0
SignalAt(k) ==
    IF k = 0 THEN 0
    ELSE SignalOf(MeanOfLast(SubSeq(fwd, 1, k), WINDOW),
                  LONG_THRESH, SHORT_THRESH)

\* the k-th processed candle's signal and the one before it are 1 and -1
Flip(k) == SignalAt(k) * SignalAt(k - 1) = -1

\* the orders due after k processed candles: one per flip, buy when the new
\* signal is 1 and sell when it is -1, and none without PRODUCT_ID
RECURSIVE Dispatched(_)
Dispatched(k) ==
    IF k = 0 THEN <<>>
    ELSE IF PRODUCT_ID /\ Flip(k)
         THEN Append(Dispatched(k - 1),
                     IF SignalAt(k) = 1 THEN "buy" ELSE "sell")
         ELSE Dispatched(k - 1)

\* C25: in bot_final.run_bot an order is dispatched for a processed candle
\* if and only if PRODUCT_ID is set and the candle's signal and the previous
\* candle's signal are 1 and -1 in either order, with side buy iff the new
\* signal is 1; a move from or to NEUTRAL dispatches none, so LONG, NEUTRAL,
\* SHORT in a row dispatches none; and last_signal is the signal of the
\* last processed candle whether or not an order was dispatched.
C25_OrderOnlyOnFlip ==
    (prog = "final") =>
        /\ orders = Dispatched(Len(fwd))
        /\ last_signal = SignalAt(Len(fwd))

\* signals NEUTRAL, SHORT, LONG, NEUTRAL: the flip to LONG dispatched one
\* buy, the moves from and to NEUTRAL dispatched nothing
C25_Witness ==
    /\ prog = "final" /\ PRODUCT_ID
    /\ Len(fwd) = 4
    /\ SignalAt(1) = 0 /\ SignalAt(2) = -1
    /\ SignalAt(3) = 1 /\ SignalAt(4) = 0
    /\ orders = <<"buy">>
    /\ last_signal = 0

\* signals NEUTRAL, LONG, NEUTRAL, SHORT with PRODUCT_ID set: no order
C25_ThroughNeutral ==
    /\ prog = "final" /\ PRODUCT_ID
    /\ Len(fwd) = 4
    /\ SignalAt(2) = 1 /\ SignalAt(3) = 0 /\ SignalAt(4) = -1
    /\ orders = <<>>

=============================================================================
